---- MODULE Spec2Model ----
(***************************************************************************)
(* The metadata store of the Zettelkasten (src/src/database.rs), its       *)
(* string-encoded link/tag columns (src/src/main.rs) and the rebuild       *)
(* pipeline of Database::generate: rayon producers, a sync_channel of      *)
(* capacity 1 and one writer thread holding the connection mutex for the   *)
(* length of one IMMEDIATE transaction; and the extractor's two regular    *)
(* expressions (src/src/zettel.rs), applied to every short contents.       *)
(*                                                                         *)
(* A Rust String is a sequence of one-character strings, so that joining,  *)
(* splitting and SQL LIKE matching are computed character by character.    *)
(***************************************************************************)
EXTENDS Naturals, Sequences, FiniteSets, TLC

VARIABLES
    schema,     \* the zettelkasten table exists (CREATE TABLE IF NOT EXISTS ran)
    db,         \* committed rows of the table
    tsx,        \* rows inserted by the writer's open transaction, not yet committed
    holder,     \* who holds the Mutex<Connection>: "free", a caller or "writer"
    poisoned,   \* the mutex is poisoned: a thread panicked while holding its guard
    pc,         \* per caller: position inside the Store operation it runs
    op,         \* per caller: the operation called last (name and arguments)
    out,        \* per caller: what that operation returned
    gen,        \* per caller: the rebuild its last call of generate started
    wpc,        \* per rebuild: position of the writer thread generate spawned
    chan,       \* per rebuild: the sync_channel buffer, sent and not yet received
    cur,        \* per rebuild: the record its writer received last and is inserting
    todo,       \* per rebuild: note files whose producer task has not run yet
    txOpen,     \* per rebuild: the SyncSender `tx` is alive (not yet dropped)
    rxOpen,     \* per rebuild: the Receiver `rx` is alive (the writer has not died)
    genFail,    \* per rebuild: one of its producer tasks panicked
    contents,   \* the text of the note the extractor is given
    found       \* what find_links and find_tags returned for it

vars == <<schema, db, tsx, holder, poisoned, pc, op, out, gen,
          wpc, chan, cur, todo, txOpen, rxOpen, genFail, contents, found>>

----------------------------------------------------------------------------
(* Strings *)

\* byte value of a character, the order par_sort compares strings by
Code(c) ==
    CASE c = "%" -> 37  [] c = "." -> 46  [] c = ":" -> 58  [] c = "=" -> 61
      [] c = "?" -> 63  [] c = "A" -> 65  [] c = "_" -> 95  [] c = "a" -> 97
      [] c = "b" -> 98  [] c = "d" -> 100 [] c = "m" -> 109 [] c = "p" -> 112
      [] c = "x" -> 120 [] c = "y" -> 121

\* ASCII case folding, as SQLite's LIKE applies it
Lower(c) == IF c = "A" THEN "a" ELSE c

\* does `pre` occur in s at position i (1-based)
OccursAt(s, pre, i) ==
    /\ i + Len(pre) - 1 <= Len(s)
    /\ SubSeq(s, i, i + Len(pre) - 1) = pre

StartsWith(s, pre) == OccursAt(s, pre, 1)

\* position of the first occurrence of sep in s, 0 when there is none
FirstOcc(s, sep) ==
    LET hits == {i \in 1..Len(s) : OccursAt(s, sep, i)}
    IN  IF hits = {} THEN 0 ELSE CHOOSE i \in hits : \A j \in hits : i <= j

\* str::split(sep): the pieces between the non-overlapping occurrences of
\* sep, found left to right; empty pieces are kept (x is the string and i
\* the position of the first occurrence, each computed once)
RECURSIVE Split(_, _)
Split(s, sep) ==
    CHOOSE pieces \in
        {IF xi[2] = 0 THEN <<xi[1]>>
         ELSE <<SubSeq(xi[1], 1, xi[2] - 1)>>
              \o Split(SubSeq(xi[1], xi[2] + Len(sep), Len(xi[1])), sep)
            : xi \in {<<s, FirstOcc(s, sep)>>}} : TRUE

\* [String]::join(sep)
RECURSIVE Join(_, _)
Join(v, sep) ==
    IF v = <<>> THEN <<>>
    ELSE IF Len(v) = 1 THEN v[1]
    ELSE v[1] \o sep \o Join(Tail(v), sep)

\* lexicographic byte order of two strings (String's Ord)
RECURSIVE StrLess(_, _)
StrLess(a, b) ==
    IF b = <<>> THEN FALSE
    ELSE IF a = <<>> THEN TRUE
    ELSE IF Code(Head(a)) # Code(Head(b)) THEN Code(Head(a)) < Code(Head(b))
    ELSE StrLess(Tail(a), Tail(b))

RECURSIVE Insert(_, _)
Insert(x, v) ==
    IF v = <<>> THEN <<x>>
    ELSE IF StrLess(Head(v), x) THEN <<Head(v)>> \o Insert(x, Tail(v))
    ELSE <<x>> \o v

\* a sort that leaves the vector as it is
unsorted(v) == v

\* results.par_sort()
RECURSIVE par_sort(_)
par_sort(v) == IF v = <<>> THEN <<>> ELSE Insert(Head(v), par_sort(Tail(v)))

\* Vec::dedup(): drop every element equal to the one before it
RECURSIVE dedup(_)
dedup(v) ==
    IF Len(v) < 2 THEN v
    ELSE IF v[1] = v[2] THEN dedup(Tail(v))
    ELSE <<v[1]>> \o dedup(Tail(v))

Range(v) == {v[i] : i \in 1..Len(v)}

\* SQLite's LIKE: % matches any run of characters, _ any one character,
\* every other character matches itself up to ASCII case
RECURSIVE Like(_, _)
Like(pattern, s) ==
    IF pattern = <<>> THEN s = <<>>
    ELSE IF Head(pattern) = "%"
         THEN Like(Tail(pattern), s) \/ (s # <<>> /\ Like(pattern, Tail(s)))
    ELSE /\ s # <<>>
         /\ (Head(pattern) = "_" \/ Lower(Head(pattern)) = Lower(Head(s)))
         /\ Like(Tail(pattern), Tail(s))

----------------------------------------------------------------------------
(* The encoding of links and tags *)

SQL_ARRAY_SEPARATOR == <<":", ":">>

vec_to_str(vec) ==
    SQL_ARRAY_SEPARATOR \o Join(vec, SQL_ARRAY_SEPARATOR) \o SQL_ARRAY_SEPARATOR

str_to_vec(str) ==
    SelectSeq(Split(str, SQL_ARRAY_SEPARATOR), LAMBDA s : s # <<>>)

\* Zettel::new
Zettel(title, project) ==
    [title |-> title, project |-> project, links |-> <<>>, tags |-> <<>>]

\* Zettel::from_db: a table row decoded into a Zettel
from_db(row) ==
    [Zettel(row.title, row.project) EXCEPT
        !.links = str_to_vec(row.links), !.tags = str_to_vec(row.tags)]

\* the row an INSERT of a Zettel's four fields writes
RowOf(z) ==
    [title |-> z.title, project |-> z.project,
     links |-> vec_to_str(z.links), tags |-> vec_to_str(z.tags)]

----------------------------------------------------------------------------
(* The extractor: find_links and find_tags *)

\* the characters of the contents that \\w matches
WordChars ==
    {"N", "O", "a", "b", "d", "e", "h", "i", "k", "m", "n", "o", "p", "r", "s", "t",
     "x", "y", "z"}

\* the class [\\w/_-] of find_tags
IsTagChar(c) == c \in WordChars \cup {"/", "_", "-"}

\* \\s
IsSpace(c) == c \in {" ", "\n"}

\* a closing search that takes the last "]]" of the contents (a greedy span)
LinkEndGreedy(c, i) ==
    LET js == {j \in i + 2 .. Len(c) : OccursAt(c, <<"]", "]">>, j)}
    IN  IF js = {} THEN 0 ELSE CHOOSE j \in js : \A k \in js : k <= j

\* \\[\\[(.*?)\\]\\] tried at position i: 0 when it does not match there, else
\* the position of the "]]" that closes the shortest span; `.` matches every
\* character but the line feed
LinkEnd(c, i) ==
    LET js == {j \in i + 2 .. Len(c) :
                 /\ OccursAt(c, <<"]", "]">>, j)
                 /\ \A k \in i + 2 .. j - 1 : c[k] # "\n"}
    IN  IF ~OccursAt(c, <<"[", "[">>, i) \/ js = {} THEN 0
        ELSE CHOOSE j \in js : \A k \in js : j <= k

\* captures_iter of the link pattern from position p on: group 1 of the
\* leftmost match, then of the matches after its end
RECURSIVE LinkCaptures(_, _)
LinkCaptures(c, p) ==
    LET starts == {i \in p .. Len(c) : LinkEnd(c, i) # 0}
    IN  IF starts = {} THEN <<>>
        ELSE LET i == CHOOSE x \in starts : \A y \in starts : x <= y
                 j == LinkEnd(c, i)
             IN  <<SubSeq(c, i + 2, j - 1)>> \o LinkCaptures(c, j + 2)

\* #([\\w/_-]+?)\\s+ tried at position i: 0 when it does not match there, else
\* the length of the shortest token that whitespace follows
TagLen(c, i) ==
    LET ks == {k \in 1 .. Len(c) - i :
                 /\ \A m \in 1 .. k : IsTagChar(c[i + m])
                 /\ i + k + 1 <= Len(c)
                 /\ IsSpace(c[i + k + 1])}
    IN  IF i > Len(c) \/ c[i] # "#" \/ ks = {} THEN 0
        ELSE CHOOSE k \in ks : \A m \in ks : k <= m

\* the first position from j on that holds no whitespace (the end of \\s+)
RECURSIVE SkipSpace(_, _)
SkipSpace(c, j) ==
    IF j <= Len(c) /\ IsSpace(c[j]) THEN SkipSpace(c, j + 1) ELSE j

\* captures_iter of the tag pattern from position p on
RECURSIVE TagCaptures(_, _)
TagCaptures(c, p) ==
    LET starts == {i \in p .. Len(c) : TagLen(c, i) # 0}
    IN  IF starts = {} THEN <<>>
        ELSE LET i == CHOOSE x \in starts : \A y \in starts : x <= y
                 k == TagLen(c, i)
             IN  <<SubSeq(c, i + 1, i + k)>> \o TagCaptures(c, SkipSpace(c, i + k + 1))

\* par_bridge().map(..).collect(): the captures in any order
par_bridge(v) ==
    IF v = <<>> THEN {<<>>}
    ELSE {[i \in 1 .. Len(v) |-> v[q[i]]] : q \in Permutations(1 .. Len(v))}

\* the vectors find_links may return
find_links(c) == par_bridge(LinkCaptures(c, 1))

\* the vectors find_tags may return
find_tags(c) == par_bridge(TagCaptures(c, 1))

----------------------------------------------------------------------------
(* The note collection and the arguments the callers use *)

sa == <<"a">>
sb == <<"b">>
sx == <<"x">>
sy == <<"y">>
sp == <<"p">>
sUpperA == <<"A">>
root == <<>>
md == <<".", "m", "d">>

\* the separator generate puts between the four fields of a record
data_sep == <<"=", "?", "=">>

\* the directory of the Zettelkasten
zk == <<"z", "k">>

\* A note file: its path as the pieces between the '/' and its contents.
NoteFile(path, text) == [path |-> path, contents |-> text]

\* Zettel::filename: <zettelkasten>/<project>/<title>.md; the file of a
\* Zettel of the root project is reached by "zk//a.md"
filename(z) == <<zk, z.project, z.title \o md>>

\* a.md holds "[[b]] #x ", .md is the empty-title placeholder,
\* b.md holds "[[=?=]]", p/a.md holds "#y "
AllFiles ==
    << NoteFile(filename([title |-> sa, project |-> root]),
                <<"[", "[", "b", "]", "]", " ", "#", "x", " ">>),
       NoteFile(filename([title |-> <<>>, project |-> root]), <<>>),
       NoteFile(filename([title |-> sb, project |-> root]),
                <<"[", "[", "=", "?", "=", "]", "]">>),
       NoteFile(filename([title |-> sa, project |-> sp]), <<"#", "y", " ">>) >>

NumFiles == 3

Files == {AllFiles[i] : i \in 1..NumFiles}

\* basename: the last piece of a path
basename(path) == path[Len(path)]

\* title and project of Zettel::from_file: the basename without its
\* extension, and the second-last piece of the path
Titled(f) ==
    Zettel(SubSeq(basename(f.path), 1, Len(basename(f.path)) - Len(md)),
           f.path[Len(f.path) - 1])

\* a from_file that extracts nothing from the contents
from_file_unread(f) == {Titled(f)}

\* Zettel::from_file: the Zettels it may return for a file, the links and
\* the tags being what find_links and find_tags give for its contents
from_file(f) ==
    {[Titled(f) EXCEPT !.links = l, !.tags = g] :
        l \in find_links(f.contents), g \in find_tags(f.contents)}

NewZettel(title, project, links, tags) ==
    [title |-> title, project |-> project, links |-> links, tags |-> tags]

ZA1 == NewZettel(sa, root, <<sb>>, <<sx>>)
ZA2 == NewZettel(sa, root, <<>>, <<>>)
ZB == NewZettel(sUpperA, sp, <<sa \o SQL_ARRAY_SEPARATOR \o sb>>, <<sy, sx>>)

ZettelPool == {ZA1, ZA2, ZB}
KeyPool == {ZA1, ZB}
Patterns == {sa, sUpperA}
TagArgs == {sx, <<"_">>}
LinkArgs == {sb}
NewTitles == {sUpperA}
NewProjects == {sb}

Threads == {"t1", "t2"}

\* the calls of generate the callers make in all: a rebuild is one call of
\* generate with the channel it creates and the writer thread it spawns
MaxRebuilds == 3

Rebuilds == 1..MaxRebuilds

Op(name, z, arg) == [name |-> name, z |-> z, arg |-> arg]
NoOp == Op("none", <<>>, <<>>)

MutationOps ==
    {Op("init", <<>>, <<>>)}
    \cup {Op("save", z, <<>>) : z \in ZettelPool}
    \cup {Op("delete", z, <<>>) : z \in KeyPool}
    \cup {Op("change_title", z, n) : z \in KeyPool, n \in NewTitles}
    \cup {Op("change_project", ZA1, n) : n \in NewProjects}
    \cup {Op("update", ZA2, <<>>)}

QueryOps ==
    {Op("all", <<>>, <<>>), Op("list_tags", <<>>, <<>>),
     Op("list_projects", <<>>, <<>>), Op("zettel_not_yet_created", <<>>, <<>>)}
    \cup {Op("find_by_title", <<>>, p) : p \in Patterns}
    \cup {Op("find_by_tag", <<>>, x) : x \in TagArgs}
    \cup {Op("find_by_links_to", <<>>, x) : x \in LinkArgs}
    \cup {Op("isolated", <<>>, <<>>)}

\* The first caller may run every operation; the second one is a concurrent
\* client that saves and reads.
Ops(t) ==
    IF t = "t1" THEN MutationOps \cup QueryOps
    ELSE {Op("save", ZA2, <<>>), Op("all", <<>>, <<>>),
          Op("zettel_not_yet_created", <<>>, <<>>)}

Out(res, val) == [res |-> res, val |-> val]
NoOut == Out("none", <<>>)

----------------------------------------------------------------------------
(* The table *)

Key(r) == <<r.title, r.project>>

\* what a statement run on the connection sees: committed rows and the rows
\* of the connection's own open transaction
Visible == db \cup tsx

\* UNIQUE(title, project): would `row` collide with a row of `table`
Conflicts(table, row) == \E r \in table : Key(r) = Key(row)

\* a lock that lets a thread in while another one holds the guard
CanLockAlways == TRUE

\* Mutex::lock returns once no other thread holds the guard
CanLock == holder = "free"

----------------------------------------------------------------------------
(* Construction *)

StoreInit ==
    /\ schema = FALSE
    /\ db = {}
    /\ tsx = {}
    /\ holder = "free"
    /\ poisoned = FALSE
    /\ pc = [t \in Threads |-> "idle"]
    /\ op = [t \in Threads |-> NoOp]
    /\ out = [t \in Threads |-> NoOut]
    /\ gen = [t \in Threads |-> 0]
    /\ wpc = [r \in Rebuilds |-> "none"]
    /\ chan = [r \in Rebuilds |-> <<>>]
    /\ cur = [r \in Rebuilds |-> <<>>]
    /\ todo = [r \in Rebuilds |-> {}]
    /\ txOpen = [r \in Rebuilds |-> FALSE]
    /\ rxOpen = [r \in Rebuilds |-> FALSE]
    /\ genFail = [r \in Rebuilds |-> FALSE]

NotFound == [links |-> <<>>, tags |-> <<>>, done |-> FALSE]

Init ==
    /\ StoreInit
    /\ contents = <<>>
    /\ found = NotFound

rebuildVars == <<gen, wpc, chan, cur, todo, txOpen, rxOpen, genFail, contents, found>>

\* a caller calls one of the Store operations `ops` and reaches its
\* conn.lock()
CallAny(t, ops) ==
    /\ pc[t] = "idle"
    /\ \E o \in ops :
        /\ op' = [op EXCEPT ![t] = o]
        /\ out' = [out EXCEPT ![t] = NoOut]
        /\ pc' = [pc EXCEPT ![t] = "wait"]
    /\ UNCHANGED <<schema, db, tsx, holder, poisoned, rebuildVars>>

Call(t) == CallAny(t, Ops(t))

\* the statement of a single-statement operation is about to run: the caller
\* called `name`, the mutex is free and not poisoned
Runs(t, name) ==
    /\ pc[t] = "wait"
    /\ op[t].name = name
    /\ CanLock
    /\ ~poisoned

\* the operation returns `o` to its caller
Return(t, o) ==
    /\ out' = [out EXCEPT ![t] = o]
    /\ pc' = [pc EXCEPT ![t] = "idle"]

\* conn.lock().unwrap() on a poisoned mutex panics the calling thread
LockPoisoned(t) ==
    /\ pc[t] \in {"wait", "update_save"}
    /\ CanLock
    /\ poisoned
    /\ out' = [out EXCEPT ![t] = Out("PoisonError", <<>>)]
    /\ pc' = [pc EXCEPT ![t] = "panicked"]
    /\ UNCHANGED <<schema, db, tsx, holder, poisoned, op, rebuildVars>>

----------------------------------------------------------------------------
(* Single-statement operations: lock, run one statement, unlock *)

frame == <<tsx, holder, poisoned, op, rebuildVars>>

\* Database::init: CREATE TABLE IF NOT EXISTS
init(t) ==
    /\ Runs(t, "init")
    /\ schema' = TRUE
    /\ Return(t, Out("Ok", <<>>))
    /\ UNCHANGED <<db, frame>>

\* an INSERT on a table that lost its UNIQUE(title, project) constraint
InsertRowNoCheck(table, seen, row) ==
    [res |-> "Ok", table |-> table \cup {row}]

\* INSERT OR REPLACE: a colliding row is overwritten
InsertRowReplace(table, seen, row) ==
    [res |-> "Ok", table |-> {r \in table : Key(r) # Key(row)} \cup {row}]

\* the result of INSERT INTO zettelkasten of `row` on the committed rows
\* `table`, `seen` being the rows the connection sees
InsertRow(table, seen, row) ==
    IF Conflicts(seen, row)
    THEN [res |-> "ConstraintError", table |-> table]
    ELSE [res |-> "Ok", table |-> table \cup {row}]

\* Database::save
save(t) ==
    /\ Runs(t, "save")
    /\ IF ~schema
       THEN Return(t, Out("NoSuchTable", <<>>)) /\ UNCHANGED db
       ELSE LET r == InsertRow(db, Visible, RowOf(op[t].z))
            IN  db' = r.table /\ Return(t, Out(r.res, <<>>))
    /\ UNCHANGED <<schema, frame>>

\* a DELETE that matches on the title alone
DeleteRowByTitle(table, z) == {r \in table : r.title # z.title}

\* DELETE FROM zettelkasten WHERE title=?1 AND project=?2
DeleteRow(table, z) == {r \in table : Key(r) # Key(z)}

\* Database::delete
delete(t) ==
    /\ Runs(t, "delete")
    /\ IF ~schema
       THEN Return(t, Out("NoSuchTable", <<>>)) /\ UNCHANGED db
       ELSE db' = DeleteRow(db, op[t].z) /\ Return(t, Out("Ok", <<>>))
    /\ UNCHANGED <<schema, frame>>

\* an UPDATE on a table that lost its UNIQUE(title, project) constraint
UpdateRowNoCheck(table, seen, z, moved) ==
    [res |-> "Ok",
     table |-> {r \in table : Key(r) # Key(z)}
               \cup {moved[r] : r \in {x \in table : Key(x) = Key(z)}}]

\* UPDATE zettelkasten SET <field> = new WHERE title=?2 AND project=?3: the
\* row keyed by z becomes `moved`; the statement fails, changing nothing,
\* when the new key collides with another row
UpdateRow(table, seen, z, moved) ==
    LET hit == {r \in table : Key(r) = Key(z)}
        new == {moved[r] : r \in hit}
    IN  IF \E n \in new : Conflicts(seen \ hit, n)
        THEN [res |-> "ConstraintError", table |-> table]
        ELSE [res |-> "Ok", table |-> (table \ hit) \cup new]

\* Database::change_project
change_project(t) ==
    /\ Runs(t, "change_project")
    /\ IF ~schema
       THEN Return(t, Out("NoSuchTable", <<>>)) /\ UNCHANGED db
       ELSE LET r == UpdateRow(db, Visible, op[t].z,
                               [x \in db |-> [x EXCEPT !.project = op[t].arg]])
            IN  db' = r.table /\ Return(t, Out(r.res, <<>>))
    /\ UNCHANGED <<schema, frame>>

\* Database::change_title
change_title(t) ==
    /\ Runs(t, "change_title")
    /\ IF ~schema
       THEN Return(t, Out("NoSuchTable", <<>>)) /\ UNCHANGED db
       ELSE LET r == UpdateRow(db, Visible, op[t].z,
                               [x \in db |-> [x EXCEPT !.title = op[t].arg]])
            IN  db' = r.table /\ Return(t, Out(r.res, <<>>))
    /\ UNCHANGED <<schema, frame>>

\* a query returns `val`, or the error of prepare() when the table is missing
Query(t, val) ==
    /\ IF ~schema THEN Return(t, Out("NoSuchTable", <<>>))
                  ELSE Return(t, Out("Ok", val))
    /\ UNCHANGED <<schema, db, frame>>

\* SELECT * FROM zettelkasten, each row decoded by from_db
SelectAll(table) == {from_db(r) : r \in table}

\* Database::all
all(t) ==
    /\ Runs(t, "all")
    /\ Query(t, SelectAll(Visible))

\* SELECT * FROM zettelkasten WHERE title LIKE :pattern
SelectByTitle(table, pattern) ==
    {from_db(r) : r \in {x \in table : Like(pattern, x.title)}}

\* Database::find_by_title
find_by_title(t) ==
    /\ Runs(t, "find_by_title")
    /\ Query(t, SelectByTitle(Visible, op[t].arg))

\* the rows of a table in the order the store yields them
RECURSIVE Rows(_)
Rows(table) ==
    IF table = {} THEN <<>>
    ELSE LET r == CHOOSE x \in table : TRUE IN <<r>> \o Rows(table \ {r})

\* every tag of every row, in row order
RECURSIVE FlattenTags(_)
FlattenTags(rows) ==
    IF rows = <<>> THEN <<>>
    ELSE str_to_vec(Head(rows).tags) \o FlattenTags(Tail(rows))

ListTags(table) == dedup(par_sort(FlattenTags(Rows(table))))

\* Database::list_tags
list_tags(t) ==
    /\ Runs(t, "list_tags")
    /\ Query(t, ListTags(Visible))

\* the non-empty project of every row, in row order
RECURSIVE Projects(_)
Projects(rows) ==
    IF rows = <<>> THEN <<>>
    ELSE (IF Head(rows).project # <<>> THEN <<Head(rows).project>> ELSE <<>>)
         \o Projects(Tail(rows))

ListProjects(table) == dedup(par_sort(Projects(Rows(table))))

\* Database::list_projects
list_projects(t) ==
    /\ Runs(t, "list_projects")
    /\ Query(t, ListProjects(Visible))

\* the LIKE pattern %::x::% that brackets a search term with the separator
Bracketed(x) ==
    <<"%">> \o SQL_ARRAY_SEPARATOR \o x \o SQL_ARRAY_SEPARATOR \o <<"%">>

\* SELECT * FROM zettelkasten WHERE tags LIKE %::tag::%
SelectByTag(table, tag) ==
    {from_db(r) : r \in {x \in table : Like(Bracketed(tag), x.tags)}}

\* find_by_tag
find_by_tag(t) ==
    /\ Runs(t, "find_by_tag")
    /\ Query(t, SelectByTag(Visible, op[t].arg))

\* SELECT * FROM zettelkasten WHERE links LIKE %::title::%
SelectByLinksTo(table, title) ==
    {from_db(r) : r \in {x \in table : Like(Bracketed(title), x.links)}}

\* find_by_links_to, the backlinks of a title
find_by_links_to(t) ==
    /\ Runs(t, "find_by_links_to")
    /\ Query(t, SelectByLinksTo(Visible, op[t].arg))

\* the isolated subcommand composes the Store's primitives: of the Zettels
\* all() returns, those of the main Zettelkasten (the root project) that
\* have no link and for whose title find_by_links_to returns no record
Isolated(table) ==
    {z \in SelectAll(table) : /\ z.project = root
                              /\ z.links = <<>>
                              /\ SelectByLinksTo(table, z.title) = {}}

\* isolated: the subcommand's queries, taken as one read of the table
isolated(t) ==
    /\ Runs(t, "isolated")
    /\ Query(t, Isolated(Visible))

----------------------------------------------------------------------------
(* zettel_not_yet_created: the guard taken first lives to the end of the call *)

\* every link of every row, in row order
RECURSIVE FlattenLinks(_)
FlattenLinks(rows) ==
    IF rows = <<>> THEN <<>>
    ELSE str_to_vec(Head(rows).links) \o FlattenLinks(Tail(rows))

\* unique_links after par_sort and dedup
UniqueLinks(table) == dedup(par_sort(FlattenLinks(Rows(table))))

\* conn_lock is taken and the links are collected, sorted and deduplicated
GhostsCollect(t) ==
    /\ Runs(t, "zettel_not_yet_created")
    /\ IF ~schema
       THEN Return(t, Out("NoSuchTable", <<>>)) /\ UNCHANGED holder
       ELSE /\ holder' = t
            /\ pc' = [pc EXCEPT ![t] = "ghosts_filter"]
            /\ UNCHANGED out
    /\ UNCHANGED <<schema, db, tsx, poisoned, op, rebuildVars>>

\* no link at all: the filter closure never runs and the empty list returns
GhostsReturn(t) ==
    /\ pc[t] = "ghosts_filter"
    /\ UniqueLinks(Visible) = <<>>
    /\ holder' = "free"
    /\ Return(t, Out("Ok", <<>>))
    /\ UNCHANGED <<schema, db, tsx, poisoned, op, rebuildVars>>

\* the filter closure calls self.find_by_title for the first link, which
\* locks the mutex this thread already holds: std's Mutex never returns from
\* that call, it deadlocks ...
GhostsRelockDeadlock(t) ==
    /\ pc[t] = "ghosts_filter"
    /\ UniqueLinks(Visible) # <<>>
    /\ pc' = [pc EXCEPT ![t] = "deadlocked"]
    /\ out' = [out EXCEPT ![t] = Out("Deadlock", <<>>)]
    /\ UNCHANGED <<schema, db, tsx, holder, poisoned, op, rebuildVars>>

\* ... or panics, which drops the outer guard and poisons the mutex
GhostsRelockPanic(t) ==
    /\ pc[t] = "ghosts_filter"
    /\ UniqueLinks(Visible) # <<>>
    /\ pc' = [pc EXCEPT ![t] = "panicked"]
    /\ out' = [out EXCEPT ![t] = Out("Panic", <<>>)]
    /\ holder' = "free"
    /\ poisoned' = TRUE
    /\ UNCHANGED <<schema, db, tsx, op, rebuildVars>>

----------------------------------------------------------------------------
(* update: delete, re-extract, save; the lock is released in between *)

\* the note file at Zettel::filename, if there is one
FileOf(z) == {f \in Files : f.path = filename(z)}

\* self.delete(zettel)?
UpdateDelete(t) ==
    /\ Runs(t, "update")
    /\ IF ~schema
       THEN Return(t, Out("NoSuchTable", <<>>)) /\ UNCHANGED db
       ELSE /\ db' = DeleteRow(db, op[t].z)
            /\ pc' = [pc EXCEPT ![t] = "update_save"]
            /\ UNCHANGED out
    /\ UNCHANGED <<schema, frame>>

\* Zettel::from_file(...) and self.save(z)?
UpdateSave(t) ==
    /\ pc[t] = "update_save"
    /\ CanLock
    /\ ~poisoned
    /\ \E f \in FileOf(op[t].z) : \E z \in from_file(f) :
        LET r == InsertRow(db, Visible, RowOf(z))
        IN  db' = r.table /\ Return(t, Out(r.res, <<>>))
    /\ UNCHANGED <<schema, frame>>

----------------------------------------------------------------------------
(* generate: producers, the channel and the writer thread *)

\* sync_channel::<String>(1)
ChannelCap == 1

\* the md files of the listed directories whose basename starts with no dot
Listed == {f \in Files : ~StartsWith(basename(f.path), <<".">>)}

\* [title, project, links, tags].join(data_sep)
Record(z) == Join(<<z.title, z.project, vec_to_str(z.links), vec_to_str(z.tags)>>, data_sep)

\* s.split(data_sep), res[0..3] as the four columns
Parse(s) ==
    LET res == Split(s, data_sep)
    IN  [title |-> res[1], project |-> res[2], links |-> res[3], tags |-> res[4]]

\* a send that never waits for a free slot
CanSendAlways(r) == TRUE

\* SyncSender::send returns once the buffer has a free slot
CanSend(r) == Len(chan[r]) < ChannelCap

\* a writer that takes an empty channel for a closed one
ChannelEmpty(r) == chan[r] = <<>>

\* Receiver::recv yields RecvError: the buffer is empty and tx is dropped
ChannelClosed(r) == chan[r] = <<>> /\ ~txOpen[r]

\* the writer thread of rebuild r is alive
WriterRuns(r) == wpc[r] \in {"spawned", "recv", "insert"}

\* the calls of generate made so far
Called == {r \in Rebuilds : wpc[r] # "none"}

\* generate is called while the listed directories hold the note files
\* `files`: a channel is created and a writer thread spawned, whatever the
\* writers of earlier calls do; the call is the next of the MaxRebuilds calls
GenerateCallOn(t, files) ==
    /\ pc[t] = "idle"
    /\ \E r \in Rebuilds :
        /\ r = Cardinality(Called) + 1
        /\ gen' = [gen EXCEPT ![t] = r]
        /\ wpc' = [wpc EXCEPT ![r] = "spawned"]
        /\ chan' = [chan EXCEPT ![r] = <<>>]
        /\ cur' = [cur EXCEPT ![r] = <<>>]
        /\ todo' = [todo EXCEPT ![r] = files]
        /\ txOpen' = [txOpen EXCEPT ![r] = TRUE]
        /\ rxOpen' = [rxOpen EXCEPT ![r] = TRUE]
        /\ genFail' = [genFail EXCEPT ![r] = FALSE]
    /\ pc' = [pc EXCEPT ![t] = "generate"]
    /\ op' = [op EXCEPT ![t] = Op("generate", <<>>, <<>>)]
    /\ out' = [out EXCEPT ![t] = NoOut]
    /\ UNCHANGED <<contents, found, schema, db, tsx, holder, poisoned>>

\* generate is called on the note collection
GenerateCall(t) == GenerateCallOn(t, Listed)

\* a producer task extracts one file and sends its record; it blocks while
\* the channel is full
ProducerSend(t) ==
    /\ pc[t] = "generate"
    /\ rxOpen[gen[t]]
    /\ CanSend(gen[t])
    /\ \E f \in todo[gen[t]] : \E z \in from_file(f) :
        /\ chan' = [chan EXCEPT ![gen[t]] = Append(@, Record(z))]
        /\ todo' = [todo EXCEPT ![gen[t]] = @ \ {f}]
    /\ UNCHANGED <<contents, found, schema, db, tsx, holder, poisoned, pc, op, out,
                   gen, wpc, cur, txOpen, rxOpen, genFail>>

\* tx.send(data).unwrap() panics once the writer, and with it rx, is gone
ProducerSendError(t) ==
    /\ pc[t] = "generate"
    /\ ~rxOpen[gen[t]]
    /\ \E f \in todo[gen[t]] : todo' = [todo EXCEPT ![gen[t]] = @ \ {f}]
    /\ genFail' = [genFail EXCEPT ![gen[t]] = TRUE]
    /\ UNCHANGED <<contents, found, schema, db, tsx, holder, poisoned, pc, op, out,
                   gen, wpc, chan, cur, txOpen, rxOpen>>

\* a producer task panics while it reads and extracts its file
ProducerFail(t) ==
    /\ pc[t] = "generate"
    /\ \E f \in todo[gen[t]] : todo' = [todo EXCEPT ![gen[t]] = @ \ {f}]
    /\ genFail' = [genFail EXCEPT ![gen[t]] = TRUE]
    /\ UNCHANGED <<contents, found, schema, db, tsx, holder, poisoned, pc, op, out,
                   gen, wpc, chan, cur, txOpen, rxOpen>>

\* every producer task is over: a panic of one of them goes on in the caller
\* and unwinds generate, otherwise drop(tx) and Ok(()); tx is dropped in both
GenerateReturn(t) ==
    /\ pc[t] = "generate"
    /\ todo[gen[t]] = {}
    /\ txOpen' = [txOpen EXCEPT ![gen[t]] = FALSE]
    /\ IF genFail[gen[t]]
       THEN /\ pc' = [pc EXCEPT ![t] = "panicked"]
            /\ out' = [out EXCEPT ![t] = Out("Panic", <<>>)]
       ELSE Return(t, Out("Ok", <<>>))
    /\ UNCHANGED <<contents, found, schema, db, tsx, holder, poisoned, op,
                   gen, wpc, chan, cur, todo, rxOpen, genFail>>

\* the writer thread of rebuild r dies: its transaction rolls back, rx is
\* dropped with whatever the channel holds
WriterDies(r, poison) ==
    /\ wpc' = [wpc EXCEPT ![r] = "panicked"]
    /\ tsx' = {}
    /\ holder' = "free"
    /\ poisoned' = poison
    /\ rxOpen' = [rxOpen EXCEPT ![r] = FALSE]
    /\ chan' = [chan EXCEPT ![r] = <<>>]
    /\ cur' = [cur EXCEPT ![r] = <<>>]
    /\ UNCHANGED <<contents, found, schema, db, pc, op, out, gen, todo, txOpen, genFail>>

\* conn.lock().unwrap() and Transaction::new_unchecked(.., Immediate)
WriterBegin(r) ==
    /\ wpc[r] = "spawned"
    /\ CanLock
    /\ IF poisoned
       THEN WriterDies(r, TRUE)
       ELSE /\ holder' = "writer"
            /\ wpc' = [wpc EXCEPT ![r] = "recv"]
            /\ UNCHANGED <<contents, found, schema, db, tsx, poisoned, pc, op, out,
                           gen, chan, cur, todo, txOpen, rxOpen, genFail>>

\* rx.recv() yields the oldest record of the channel, which frees its slot;
\* the record is split into its columns
WriterRecv(r) ==
    /\ wpc[r] = "recv"
    /\ chan[r] # <<>>
    /\ cur' = [cur EXCEPT ![r] = Parse(Head(chan[r]))]
    /\ chan' = [chan EXCEPT ![r] = Tail(@)]
    /\ wpc' = [wpc EXCEPT ![r] = "insert"]
    /\ UNCHANGED <<contents, found, schema, db, tsx, holder, poisoned, pc, op, out,
                   gen, todo, txOpen, rxOpen, genFail>>

\* the received record is inserted inside the transaction; a failing insert
\* panics the thread at unwrap()
WriterInsert(r) ==
    /\ wpc[r] = "insert"
    /\ IF ~schema \/ Conflicts(Visible, cur[r])
       THEN WriterDies(r, TRUE)
       ELSE /\ tsx' = tsx \cup {cur[r]}
            /\ cur' = [cur EXCEPT ![r] = <<>>]
            /\ wpc' = [wpc EXCEPT ![r] = "recv"]
            /\ UNCHANGED <<contents, found, schema, db, holder, poisoned, pc, op, out,
                           gen, chan, todo, txOpen, rxOpen, genFail>>

\* rx.recv() yields RecvError, the channel being empty and tx dropped: commit
WriterCommit(r) ==
    /\ wpc[r] = "recv"
    /\ ChannelClosed(r)
    /\ db' = db \cup tsx
    /\ tsx' = {}
    /\ holder' = "free"
    /\ wpc' = [wpc EXCEPT ![r] = "done"]
    /\ rxOpen' = [rxOpen EXCEPT ![r] = FALSE]
    /\ UNCHANGED <<contents, found, schema, poisoned, pc, op, out, gen, chan, cur, todo,
                   txOpen, genFail>>

----------------------------------------------------------------------------

\* the callers that rebuild the store
Rebuilders == {"t1"}

Next ==
    \/ \E t \in Threads :
        \/ Call(t)
        \/ LockPoisoned(t)
        \/ init(t)
        \/ save(t)
        \/ delete(t)
        \/ change_project(t)
        \/ change_title(t)
        \/ all(t)
        \/ find_by_title(t)
        \/ list_tags(t)
        \/ list_projects(t)
        \/ find_by_tag(t)
        \/ find_by_links_to(t)
        \/ isolated(t)
        \/ GhostsCollect(t)
        \/ GhostsReturn(t)
        \/ GhostsRelockDeadlock(t)
        \/ GhostsRelockPanic(t)
        \/ UpdateDelete(t)
        \/ UpdateSave(t)
    \/ \E t \in Rebuilders :
        \/ GenerateCall(t)
        \/ ProducerSend(t)
        \/ ProducerSendError(t)
        \/ ProducerFail(t)
        \/ GenerateReturn(t)
    \/ \E r \in Rebuilds :
        \/ WriterBegin(r)
        \/ WriterRecv(r)
        \/ WriterInsert(r)
        \/ WriterCommit(r)

Spec == Init /\ [][Next]_vars

\* The rebuild beside callers that initialise the store, save a Zettel with
\* a link and ask for the Zettel not yet created.
RebuildOps ==
    {Op("init", <<>>, <<>>), Op("save", ZA1, <<>>),
     Op("zettel_not_yet_created", <<>>, <<>>)}

RebuildNext ==
    \/ \E t \in Threads :
        \/ CallAny(t, RebuildOps)
        \/ LockPoisoned(t)
        \/ init(t)
        \/ save(t)
        \/ GhostsCollect(t)
        \/ GhostsReturn(t)
        \/ GhostsRelockDeadlock(t)
        \/ GhostsRelockPanic(t)
        \/ GenerateCall(t)
        \/ ProducerSend(t)
        \/ ProducerSendError(t)
        \/ ProducerFail(t)
        \/ GenerateReturn(t)
    \/ \E r \in Rebuilds :
        \/ WriterBegin(r)
        \/ WriterRecv(r)
        \/ WriterInsert(r)
        \/ WriterCommit(r)

\* a step of a thread that is running code: everything but a caller's
\* choice to call an operation and a producer's failure to read its file
Running ==
    \/ \E t \in Threads :
        \/ LockPoisoned(t) \/ init(t) \/ save(t) \/ GhostsCollect(t)
        \/ GhostsReturn(t) \/ GhostsRelockDeadlock(t) \/ GhostsRelockPanic(t)

\* The operating system schedules every thread that can run: the callers,
\* the producer tasks and the writer; the writer waiting for the mutex gets
\* it if it is free again and again.
RebuildFairSpec ==
    /\ Init
    /\ [][RebuildNext]_vars
    /\ WF_vars(Running)
    /\ \A t \in Threads :
          WF_vars(ProducerSend(t) \/ ProducerSendError(t) \/ GenerateReturn(t))
    /\ \A r \in Rebuilds :
          /\ WF_vars(WriterRecv(r) \/ WriterInsert(r) \/ WriterCommit(r))
          /\ SF_vars(WriterBegin(r))

\* A single caller that initialises the store, rebuilds it and reads it,
\* the Zettelkasten holding any of the note files when generate lists it.
Caller == "t1"

ReadOps == {Op("init", <<>>, <<>>), Op("all", <<>>, <<>>)}

ReadNext ==
    \/ CallAny(Caller, ReadOps)
    \/ LockPoisoned(Caller)
    \/ init(Caller)
    \/ all(Caller)
    \/ \E files \in SUBSET Listed : GenerateCallOn(Caller, files)
    \/ ProducerSend(Caller)
    \/ ProducerSendError(Caller)
    \/ ProducerFail(Caller)
    \/ GenerateReturn(Caller)
    \/ \E r \in Rebuilds :
        \/ WriterBegin(r)
        \/ WriterRecv(r)
        \/ WriterInsert(r)
        \/ WriterCommit(r)

ReadSpec == Init /\ [][ReadNext]_vars

----------------------------------------------------------------------------
(* The extractor applied to every short contents *)

Alphabet == {"[", "]", "#", "a", " ", "\n"}

MaxContentLen == 6

\* the two contents the extraction boundary is documented with
SeeOtherNote == <<"s", "e", "e", " ", "[", "[", "O", "t", "h", "e", "r", " ", "N", "o", "t", "e", "]", "]", " ", "a", "n", "d", " ", "#", "i", "d", "e", "a", " ", "m", "o", "r", "e", " ", "t", "e", "x", "t">>
EndsInTag == <<"m", "o", "r", "e", " ", "t", "e", "x", "t", " ", "#", "i", "d", "e", "a">>

\* every contents over the alphabet up to the length bound, and the two
\* documented ones
Contents ==
    UNION {[1 .. n -> Alphabet] : n \in 0 .. MaxContentLen}
    \cup {SeeOtherNote, EndsInTag}

ExtractInit ==
    /\ StoreInit
    /\ contents \in Contents
    /\ found = NotFound

\* zettel.links = find_links(&contents); zettel.tags = find_tags(&contents)
Extract ==
    /\ ~found.done
    /\ \E l \in find_links(contents), t \in find_tags(contents) :
          found' = [links |-> l, tags |-> t, done |-> TRUE]
    /\ UNCHANGED <<contents, schema, db, tsx, holder, poisoned, pc, op, out,
                   gen, wpc, chan, cur, todo, txOpen, rxOpen, genFail>>

ExtractNext == Extract

ExtractSpec == ExtractInit /\ [][ExtractNext]_vars

----------------------------------------------------------------------------
(* Properties *)

QueryNames ==
    {"all", "find_by_title", "list_tags", "list_projects", "find_by_tag",
     "find_by_links_to", "isolated"}

\* caller t's single-statement operation `name` returns in this step
Returns(t, name) ==
    /\ pc[t] = "wait"
    /\ op[t].name = name
    /\ pc'[t] = "idle"

\* the writer of rebuild r commits in this step
Commits(r) == wpc[r] = "recv" /\ wpc'[r] = "done"

\* C1: no two rows of the table, committed or inside the writer's open
\* transaction, have the same (title, project).
C1_UniqueTitleProject ==
    \A r1 \in Visible, r2 \in Visible : Key(r1) = Key(r2) => r1 = r2

\* a colliding write was refused while the table holds several rows
C1_Witness ==
    /\ Cardinality(db) >= 2
    /\ \E t \in Threads : out[t].res = "ConstraintError"

\* C2: a save whose (title, project) is already in the table returns the
\* constraint error and leaves the rows of the table as they were.
C2_SaveDuplicateRefused ==
    [][\A t \in Threads :
        (Returns(t, "save") /\ schema /\ Conflicts(db, RowOf(op[t].z)))
            => (out'[t].res = "ConstraintError" /\ db' = db)]_vars

\* a save of a Zettel whose key is stored with other links was refused
C2_Witness ==
    \E t \in Threads :
        /\ op[t].name = "save"
        /\ out[t].res = "ConstraintError"
        /\ RowOf(op[t].z) \notin db
        /\ Conflicts(db, RowOf(op[t].z))

\* C3: once save(z) has stored z's row, find_by_title(z.title) returns
\* exactly one record, whose links and tags are z's as sets.
C3_RoundTrip ==
    [][\A t \in Threads : \A z \in ZettelPool :
        (Returns(t, "find_by_title") /\ op[t].arg = z.title /\ RowOf(z) \in db)
            => \E y \in out'[t].val :
                /\ out'[t].val = {y}
                /\ Range(y.links) = Range(z.links)
                /\ Range(y.tags) = Range(z.tags)]_vars

\* C4: in a rebuild one of whose producers failed, the writer commits none
\* of the rebuild's records: the table keeps its pre-rebuild rows.
C4_RebuildAtomic ==
    [][\A r \in Rebuilds : (Commits(r) /\ genFail[r]) => db' = db]_vars

\* C5: a query never returns a row of the writer's open transaction: what it
\* returns is computed from the committed rows, which the rebuild changes in
\* one step only, the commit that adds every row it inserted.
QueryOn(o, table) ==
    CASE o.name = "all" -> SelectAll(table)
      [] o.name = "find_by_title" -> SelectByTitle(table, o.arg)
      [] o.name = "list_tags" -> ListTags(table)
      [] o.name = "list_projects" -> ListProjects(table)
      [] o.name = "find_by_tag" -> SelectByTag(table, o.arg)
      [] o.name = "find_by_links_to" -> SelectByLinksTo(table, o.arg)
      [] o.name = "isolated" -> Isolated(table)

C5_QueriesSeeNoPartialRebuild ==
    [][/\ \A t \in Threads : \A n \in QueryNames :
            (Returns(t, n) /\ out'[t].res = "Ok")
                => (tsx = {} /\ out'[t].val = QueryOn(op[t], db))
       /\ \A t \in Threads :
            (pc[t] = "ghosts_filter" /\ pc'[t] = "idle") => tsx = {}
       /\ (holder = "writer" /\ db' # db)
            => \E r \in Rebuilds : Commits(r) /\ db' = db \cup tsx]_vars

\* another thread's query waits at the lock while the writer's transaction
\* holds some of the rebuild's records and producers are still at work
C5_Witness ==
    /\ holder = "writer"
    /\ tsx # {}
    /\ \E r \in Rebuilds : wpc[r] \in {"recv", "insert"} /\ todo[r] # {}
    /\ pc["t2"] = "wait"
    /\ op["t2"].name = "all"

\* the threads inside a section guarded by the connection's mutex
InSection ==
    {t \in Threads : pc[t] \in {"ghosts_filter", "deadlocked"}}
    \cup {<<"writer", r>> : r \in {q \in Rebuilds : wpc[q] \in {"recv", "insert"}}}

\* C6: at most one thread is inside a section guarded by the connection's
\* mutex, and a caller waiting for the connection gets it: its holder is
\* never a thread that will not release it.
C6_SerializedAndCompleting ==
    /\ Cardinality(InSection) <= 1
    /\ \A t \in Threads : \A u \in Threads :
        (pc[t] = "wait" /\ holder = u) => pc[u] # "deadlocked"

\* the elements of a set of strings in sorted order
RECURSIVE Enumerate(_)
Enumerate(S) ==
    IF S = {} THEN <<>>
    ELSE LET x == CHOOSE y \in S : TRUE IN <<x>> \o Enumerate(S \ {x})

Sorted(S) == par_sort(Enumerate(S))

\* the link titles of a table, and its record titles
LinkTitles(table) == UNION {Range(z.links) : z \in SelectAll(table)}
Titles(table) == {r.title : r \in table}

\* C7: zettel_not_yet_created returns the sorted, duplicate-free list of the
\* link titles that are the title of no record.
C7_GhostsCorrect ==
    [][\A t \in Threads :
        (pc[t] = "ghosts_filter" /\ pc'[t] # "ghosts_filter")
            => out'[t] = Out("Ok", Sorted(LinkTitles(db) \ Titles(db)))]_vars

\* C8: the commit of a rebuild that started on an empty table, and none of
\* whose producers failed, leaves exactly one row per listed note file,
\* carrying what was extracted from that file.
C8_RebuildContent ==
    [][\A q \in Rebuilds : (Commits(q) /\ ~genFail[q] /\ db = {})
        => /\ \A f \in Listed : \E z \in from_file(f) : RowOf(z) \in db'
           /\ \A r \in db' : \E f \in Listed : \E z \in from_file(f) : r = RowOf(z)
           /\ Cardinality(db') = Cardinality(Listed)]_vars

\* C9: find_by_tag(x) returns exactly the records one of whose tags is x,
\* find_by_links_to(x) exactly the records one of whose links is x.
C9_WholeTokenMatch ==
    [][\A t \in Threads :
        /\ (Returns(t, "find_by_tag") /\ out'[t].res = "Ok")
            => out'[t].val = {z \in SelectAll(db) : op[t].arg \in Range(z.tags)}
        /\ (Returns(t, "find_by_links_to") /\ out'[t].res = "Ok")
            => out'[t].val = {z \in SelectAll(db) : op[t].arg \in Range(z.links)}]_vars

\* the claim's test: z has no link and its title is a link of no other
\* record of the table
Unlinked(z, table) ==
    /\ Range(z.links) = {}
    /\ \A y \in SelectAll(table) \ {z} : z.title \notin Range(y.links)

\* C10: isolated reports a record if and only if it has no link and its
\* title is a link of no other record.
C10_IsolatedCorrect ==
    [][\A t \in Threads :
        (Returns(t, "isolated") /\ out'[t].res = "Ok")
            => /\ out'[t].val \subseteq SelectAll(db)
               /\ \A z \in SelectAll(db) :
                    z \in out'[t].val <=> Unlinked(z, db)]_vars

\* the same for the records of the main Zettelkasten alone
C10_IsolatedCorrectMain ==
    [][\A t \in Threads :
        (Returns(t, "isolated") /\ out'[t].res = "Ok")
            => \A z \in SelectAll(db) :
                    z.project = root => (z \in out'[t].val <=> Unlinked(z, db))]_vars

\* the half of C10 that holds: a record that has a link, or that another
\* record links to, is never reported
C10_IsolatedSound ==
    [][\A t \in Threads :
        (Returns(t, "isolated") /\ out'[t].res = "Ok")
            => /\ out'[t].val \subseteq SelectAll(db)
               /\ \A z \in out'[t].val : Unlinked(z, db)]_vars

\* isolated reported some record and left out both a record that another
\* one links to and a record that has a link
C10_Witness ==
    \E t \in Threads :
        /\ op[t].name = "isolated"
        /\ pc[t] = "idle"
        /\ out[t].res = "Ok"
        /\ out[t].val # {}
        /\ \E z \in SelectAll(db) \ out[t].val : z.links = <<>>
        /\ \E z \in SelectAll(db) \ out[t].val : z.links # <<>>
        /\ out[t].val = Isolated(db)

\* C11: delete(z) on an initialised store succeeds, removes the row with z's
\* (title, project) when there is one and changes no other row; when there
\* is none the table is left as it was.
C11_DeleteFrame ==
    [][\A t \in Threads :
        (Returns(t, "delete") /\ schema)
            => /\ out'[t].res = "Ok"
               /\ \A r \in db : r \in db' <=> Key(r) # Key(op[t].z)
               /\ db' \subseteq db
               /\ (~Conflicts(db, op[t].z) => db' = db)]_vars

\* a delete of a key the other caller had saved succeeded: the key is gone
\* and a row of another key is still there
C11_Witness ==
    /\ op["t1"].name = "delete" /\ pc["t1"] = "idle" /\ out["t1"].res = "Ok"
    /\ op["t2"].name = "save" /\ pc["t2"] = "idle" /\ out["t2"].res = "Ok"
    /\ Key(op["t1"].z) = Key(op["t2"].z)
    /\ ~Conflicts(db, op["t1"].z)
    /\ db # {}

\* the key a change_project or change_title call moves z's row to
NewKey(o) ==
    IF o.name = "change_project" THEN <<o.z.title, o.arg>>
    ELSE <<o.arg, o.z.project>>

\* C12: change_project(z, p) and change_title(z, t) on an initialised store
\* move the one row keyed by z to the new key, keeping its links, its tags
\* and its other key field, and change no other row; when another row has
\* the new key the call returns an error and the table is left as it was.
C12_RenameFrame ==
    [][\A t \in Threads : \A n \in {"change_project", "change_title"} :
        (Returns(t, n) /\ schema)
            => LET hit == {r \in db : Key(r) = Key(op[t].z)}
                   rest == db \ hit
                   taken == hit # {} /\ \E r \in rest : Key(r) = NewKey(op[t])
               IN  IF taken
                   THEN out'[t].res = "ConstraintError" /\ db' = db
                   ELSE /\ out'[t].res = "Ok"
                        /\ db' \ rest =
                              {[title |-> NewKey(op[t])[1],
                                project |-> NewKey(op[t])[2],
                                links |-> r.links, tags |-> r.tags] : r \in hit}
                        /\ rest \subseteq db']_vars

\* a change_project to a project where the title is taken was refused, the
\* row that an earlier change moved there still carrying its link
C12_Witness ==
    \E t \in Threads :
        /\ op[t].name = "change_project"
        /\ pc[t] = "idle"
        /\ out[t].res = "ConstraintError"
        /\ RowOf(op[t].z) \in db
        /\ [RowOf(op[t].z) EXCEPT !.project = op[t].arg] \in db

\* a vector of strings in strictly increasing byte order
Increasing(v) == \A i \in 1..Len(v) : \A j \in 1..Len(v) : i < j => StrLess(v[i], v[j])

\* C13: list_tags returns, sorted and without duplicates, every tag of every
\* record; list_projects returns, sorted and without duplicates, every
\* non-empty project of a record, so never the root project.
C13_ListsSortedUnique ==
    [][\A t \in Threads :
        /\ (Returns(t, "list_tags") /\ out'[t].res = "Ok")
            => /\ Increasing(out'[t].val)
               /\ Range(out'[t].val) = UNION {Range(z.tags) : z \in SelectAll(db)}
        /\ (Returns(t, "list_projects") /\ out'[t].res = "Ok")
            => /\ Increasing(out'[t].val)
               /\ Range(out'[t].val) = {r.project : r \in db} \ {root}]_vars

\* list_projects returned two projects while a record of the root project
\* and two records of one project are stored
C13_Witness ==
    \E t \in Threads :
        /\ op[t].name = "list_projects"
        /\ pc[t] = "idle"
        /\ out[t].res = "Ok"
        /\ Len(out[t].val) = 2
        /\ \E r \in db : r.project = root
        /\ \E r1 \in db, r2 \in db : r1 # r2 /\ r1.project = r2.project

\* list_tags returned two tags, one of them the tag of two records
C13_WitnessTags ==
    \E t \in Threads :
        /\ op[t].name = "list_tags"
        /\ pc[t] = "idle"
        /\ out[t].res = "Ok"
        /\ Len(out[t].val) = 2
        /\ \E r1 \in db, r2 \in db :
              r1 # r2 /\ Range(str_to_vec(r1.tags)) \cap Range(str_to_vec(r2.tags)) # {}

\* how often x occurs in the vector v
Count(v, x) == Cardinality({i \in 1 .. Len(v) : v[i] = x})

\* the [[...]] spans of c: <<i, j>> with "[[" at i, "]]" at j and no "]]"
\* closing it earlier; with oneLine, only those holding no line feed
BracketSpans(c, oneLine) ==
    {span \in (1 .. Len(c)) \X (1 .. Len(c)) :
        /\ OccursAt(c, <<"[", "[">>, span[1])
        /\ span[2] >= span[1] + 2
        /\ OccursAt(c, <<"]", "]">>, span[2])
        /\ \A k \in span[1] + 2 .. span[2] - 1 :
              /\ ~OccursAt(c, <<"]", "]">>, k)
              /\ oneLine => c[k] # "\n"}

\* the spans found reading left to right: a span counts unless it begins
\* inside a span that counts
LinkSpans(c, oneLine) ==
    LET cands == BracketSpans(c, oneLine)
    IN  CHOOSE S \in SUBSET cands :
          \A span \in cands :
            span \in S <=> ~\E e \in S : e[1] < span[1] /\ span[1] <= e[2] + 1

\* the tokens of c: <<i, e>> with # at i, tag characters from i+1 to e and
\* whitespace at e+1
TagTokens(c) ==
    {tk \in (1 .. Len(c)) \X (1 .. Len(c)) :
        /\ c[tk[1]] = "#"
        /\ tk[2] > tk[1]
        /\ \A k \in tk[1] + 1 .. tk[2] : IsTagChar(c[k])
        /\ tk[2] + 1 <= Len(c)
        /\ IsSpace(c[tk[2] + 1])}

\* the vector v holds the texts of the spans, each as often as it is a span
HoldsTexts(v, c, spans, from, cut) ==
    /\ Len(v) = Cardinality(spans)
    /\ \A span \in spans :
          Count(v, SubSeq(c, span[1] + from, span[2] - cut))
            = Cardinality({e \in spans : SubSeq(c, e[1] + from, e[2] - cut)
                                            = SubSeq(c, span[1] + from, span[2] - cut)})

\* the two documented contents give what the extraction boundary says
ExtractionExamples ==
    /\ contents = SeeOtherNote
          => /\ found.links = <<<<"O", "t", "h", "e", "r", " ", "N", "o", "t", "e">>>>
             /\ found.tags = <<<<"i", "d", "e", "a">>>>
    /\ contents = EndsInTag => found.tags = <<>>

\* C14 as stated: the links are the texts of the non-greedy [[...]] spans of
\* any characters, the tags the tokens that follow a # and that whitespace
\* follows, and the two documented contents give the documented result.
C14_ExtractionAnyCharacters ==
    found.done
        => /\ HoldsTexts(found.links, contents, LinkSpans(contents, FALSE), 2, 1)
           /\ HoldsTexts(found.tags, contents, TagTokens(contents), 1, 0)
           /\ ExtractionExamples

\* C14, amended: the links are the texts of the non-greedy [[...]] spans
\* that hold no line feed; the tags and the documented contents as stated.
C14_ExtractionWithinLine ==
    found.done
        => /\ HoldsTexts(found.links, contents, LinkSpans(contents, TRUE), 2, 1)
           /\ HoldsTexts(found.tags, contents, TagTokens(contents), 1, 0)
           /\ ExtractionExamples

\* the documented contents was extracted: one link, one tag
C14_Witness ==
    /\ contents = SeeOtherNote
    /\ found.done
    /\ Len(found.links) = 1
    /\ Len(found.tags) = 1

\* nothing sent is left to insert: the channel is empty and so is the
\* writer's hand
NoneInFlight(r) == chan[r] = <<>> /\ wpc[r] # "insert"

\* a writer thread ends in this step: it commits or it dies
WriterEnds == \E q \in Rebuilds : WriterRuns(q) /\ ~WriterRuns(q)'

\* C15: the writer commits only when every producer task is over, tx is
\* dropped and nothing sent is left to insert; until then every record that
\* is sent stays in the channel until the writer receives it, and every
\* record received is inserted in the one open transaction.
C15_CommitAfterProducers ==
    [][\A r \in Rebuilds :
       /\ Commits(r) => (todo[r] = {} /\ ~txOpen[r] /\ NoneInFlight(r))
       /\ (WriterRuns(r) /\ wpc'[r] # "panicked")
            => /\ WriterEnds \/ tsx \subseteq tsx'
               /\ \A s \in Range(chan[r]) :
                    s \in Range(chan'[r]) \/ (wpc'[r] = "insert" /\ cur'[r] = Parse(s))
               /\ (wpc[r] = "insert")
                    => (wpc'[r] = "insert" /\ cur'[r] = cur[r]) \/ cur[r] \in tsx'
               /\ (chan'[r] # chan[r] /\ wpc'[r] = wpc[r])
                    => \E f \in todo[r] \ todo'[r] : \E z \in from_file(f) :
                         chan'[r] = Append(chan[r], Record(z))]_vars

\* a rebuild of two note files committed both rows, no producer failed
C15_Witness ==
    /\ \E r \in Rebuilds : wpc[r] = "done" /\ ~genFail[r]
    /\ \A r \in Rebuilds : ~WriterRuns(r)
    /\ Cardinality(Listed) >= 2
    /\ \A f \in Listed : \E z \in from_file(f) : Parse(Record(z)) \in db

\* a rebuild is under way: generate has not returned or its writer runs
RebuildActive ==
    \/ \E r \in Rebuilds : WriterRuns(r)
    \/ \E t \in Threads : pc[t] = "generate"

\* C16: every rebuild that was started comes to its end: generate has
\* returned or panicked and the writer has committed or died.
C16_RebuildTerminates == RebuildActive ~> ~RebuildActive

\* C17: when an insert fails in the writer, the table keeps its rows and
\* the rebuild is reported as failed: generate has not returned Ok and, once
\* the writer has panicked, does not return Ok.
C17_InsertFailureReported ==
    [][\A t \in Threads : \A r \in Rebuilds :
        /\ (wpc[r] = "insert" /\ wpc'[r] = "panicked")
            => /\ db' = db
               /\ ~(gen[t] = r /\ op[t].name = "generate" /\ pc[t] = "idle"
                        /\ out[t].res = "Ok")
        /\ (gen[t] = r /\ wpc[r] = "panicked" /\ pc[t] = "generate"
                /\ pc'[t] # "generate")
            => out'[t].res # "Ok"]_vars

\* C18: the channel never holds more records than its capacity; while it
\* is full no producer's send completes, the buffer changing only by the
\* writer's receive (or its death); and while it is empty and tx is alive
\* the writer stays in recv.
C18_Backpressure ==
    [][\A r \in Rebuilds :
       /\ Len(chan'[r]) <= ChannelCap
       /\ (WriterRuns(r) /\ Len(chan[r]) = ChannelCap)
            => \/ chan'[r] = chan[r]
               \/ (wpc[r] = "recv" /\ chan'[r] = Tail(chan[r]))
               \/ wpc'[r] = "panicked"
       /\ (wpc[r] = "recv" /\ chan[r] = <<>> /\ txOpen[r])
            => (wpc'[r] = "recv" /\ tsx' = tsx /\ db' = db /\ holder' = holder)]_vars

\* the channel is full and a producer still has a record to send, the
\* writer having inserted nothing yet
C18_Witness ==
    \E t \in Threads :
        /\ pc[t] = "generate"
        /\ Len(chan[gen[t]]) = ChannelCap
        /\ todo[gen[t]] # {}
        /\ wpc[gen[t]] = "recv"
        /\ tsx = {}

\* C19: update(z) first deletes the row of z's key and releases the
\* connection, so that z's record is absent until the second step; the
\* second step, when it succeeds, adds the one row of z's key with the links
\* and tags of z's file and changes no other row; when it fails it changes
\* nothing, the deleted row staying deleted.
C19_UpdateDeleteThenSave ==
    [][\A t \in Threads :
        /\ (pc[t] = "wait" /\ op[t].name = "update" /\ pc'[t] = "update_save")
            => /\ db' = {r \in db : Key(r) # Key(op[t].z)}
               /\ holder' = "free"
        /\ (pc[t] = "update_save" /\ pc'[t] = "idle")
            => IF out'[t].res = "Ok"
               THEN /\ \E f \in FileOf(op[t].z) :
                       \E l \in find_links(f.contents), g \in find_tags(f.contents) :
                         db' = db \cup {RowOf(NewZettel(op[t].z.title, op[t].z.project,
                                                        l, g))}
                    /\ Cardinality({r \in db' : Key(r) = Key(op[t].z)}) = 1
                    /\ ~Conflicts(db, op[t].z)
               ELSE db' = db]_vars

\* between the two steps of an update another caller has read the table,
\* which holds other records but none of z's key
C19_Witness ==
    /\ pc["t1"] = "update_save"
    /\ ~Conflicts(db, op["t1"].z)
    /\ db # {}
    /\ op["t2"].name = "all" /\ pc["t2"] = "idle" /\ out["t2"].res = "Ok"
    /\ out["t2"].val = SelectAll(db)

\* C20: no thread locks the connection's mutex while it holds its guard: no
\* caller is stuck in, or has panicked at, a second lock of its own, so
\* that zettel_not_yet_created returns whatever the table holds.
C20_NoRelock ==
    \A t \in Threads :
        /\ pc[t] # "deadlocked"
        /\ ~(op[t].name = "zettel_not_yet_created" /\ pc[t] = "panicked"
                /\ out[t].res = "Panic")

\* the caller's last generate has returned Ok
GenerateReturnedOk ==
    /\ gen[Caller] # 0
    /\ pc[Caller] # "generate"
    /\ ~txOpen[gen[Caller]]
    /\ ~genFail[gen[Caller]]

\* the records of rebuild r that are not committed yet: in the channel, in
\* the writer's hands or in its open transaction
PendingRows(r) ==
    (IF wpc[r] \in {"recv", "insert"} THEN tsx ELSE {})
        \cup (IF cur[r] = <<>> THEN {} ELSE {cur[r]})
        \cup {Parse(chan[r][i]) : i \in 1..Len(chan[r])}

\* C21: a query the caller issues after its generate has returned Ok
\* observes the post-rebuild state: the writer has not died and what the
\* query returns holds every record of the rebuild, none of them being
\* still on its way to the table.
C21_QueryAfterGenerate ==
    [][(Returns(Caller, "all") /\ out'[Caller].res = "Ok" /\ GenerateReturnedOk)
        => /\ wpc[gen[Caller]] # "panicked"
           /\ out'[Caller].val = SelectAll(db \cup PendingRows(gen[Caller]))]_vars

\* C22: the record the writer takes from the channel has the four columns
\* of the Zettel the producer extracted from its file: splitting the string
\* on data_sep gives back the title, the project, the serialized links and
\* the serialized tags that were joined with it.
C22_RecordRoundTrip ==
    [][\A r \in Rebuilds : (wpc[r] = "recv" /\ wpc'[r] = "insert")
        => \E f \in Listed : \E z \in from_file(f) :
            /\ Head(chan[r]) = Record(z)
            /\ cur'[r] = RowOf(z)]_vars

\* the same, for the files none of whose fields holds data_sep
C22_RecordRoundTripPlain ==
    [][\A r \in Rebuilds : (wpc[r] = "recv" /\ wpc'[r] = "insert")
        => \A f \in Listed : \A z \in from_file(f) :
            (/\ Head(chan[r]) = Record(z)
             /\ \A x \in {z.title, z.project} \cup Range(z.links) \cup Range(z.tags) :
                    FirstOcc(x, data_sep) = 0)
                => cur'[r] = RowOf(z)]_vars

====
